---- MODULE Spec2Model ----
(***************************************************************************)
(* Unit operations of the polycrude flowsheet: the dissolution tank M201,  *)
(* the pressure swing adsorption unit PSA401, the hydrogen mixer M501, the *)
(* electrolyser PEM501, the hydrocracking reactor R301 and the feed line   *)
(* C101, G101, C102, with the streams that connect them and the passes of  *)
(* the on-site production flowsheet.                                       *)
(*                                                                         *)
(* Quantities.  A mass flow is an integer number of grams per hour         *)
(* (10416.7 kg/h is 10416700).  A temperature is an integer number of      *)
(* hundredths of a kelvin (298.15 K is 29815), a pressure an integer       *)
(* number of pascal.  A dimensionless factor (concentration, solubility,   *)
(* efficiency) is a fraction [num, den].  The flows offered to the units   *)
(* are taken from grids on which every product and quotient the code       *)
(* forms is exact, so the arithmetic below is the arithmetic of the reals, *)
(* not the rounding of binary floating point.  Where no grid can make a    *)
(* quotient exact (the catalyst flow of the reactor) a flow is a fraction  *)
(* in lowest terms.                                                        *)
(***************************************************************************)
EXTENDS Integers, Sequences, FiniteSets, TLC

VARIABLES
    M201,               \* Dissolution_tank attributes (feedPW, LDPE_concentration, max_solubility)
    feed,               \* M201.ins[0]  (ss103)
    makeup_solvent,     \* M201.ins[1]
    recycled_solvent,   \* M201.ins[2]  (solvent_recycle, written by P201)
    dissolution,        \* M201.outs[0] (dissolved_LDPE)
    undissolved,        \* M201.outs[1] (impurities_waste)
    PSA401,             \* PSA attributes (T, P, efficiency)
    gases_in,           \* PSA401.ins[0]  (ss405)
    effluent,           \* PSA401.outs[0] (light_gases)
    hydrogen_recovered, \* PSA401.outs[1] = M501.ins[1]
    makeup_hydrogen,    \* M501.ins[0]
    extra_ins,          \* M501.ins[2..], the inlets beyond the first two
    s_out,              \* M501.outs[0] (hydrogen_recycle = R301.ins[1])
    B,                  \* M501._B, the split coefficient of the outlet
    PEM501,             \* Electrolysis attributes (T, P)
    water_required,     \* PEM501.ins[0]
    oxygen,             \* PEM501.outs[1] (oxygen_sideproduct)
    R301,               \* Hydrocracking_reactor attributes and the conversions of its reactions
    heavy_oil,          \* R301.ins[0]  (ss302, written by HX301)
    catalyst_in,        \* R301.ins[2]  (HC_catalyst)
    hc_out,             \* R301.outs[0] (liquid_oil)
    catalyst_out,       \* R301.outs[1] (HC_catalyst_out)
    hc_reacting,        \* the mixture R301 handed to its reaction in the last run
    C101,               \* Conveyor attributes (feedPW, purity_factor) and design record
    C102,               \* Conveyor_granulates design record
    feedstock,          \* C101.ins[0]
    ss101,              \* C101.outs[0] = G101.ins[0]
    ss102,              \* G101.outs[0] = C102.ins[0]
    pos,                \* the place in the path of the unit that runs next
    pass,               \* the number of the convergence pass under way
    stamp,              \* when each hydrogen quantity was last resolved
    IC,                 \* R301.compressor: its pressure and whether the last design simulated it
    IC_in,              \* R301.compressor.ins[0]
    IC_out,             \* R301.compressor.outs[0]
    hx_H2_in,           \* R301.heat_exchanger_H2.ins[0]
    hx_H2_out,          \* R301.heat_exchanger_H2.outs[0]
    hx_oil_in,          \* R301.heat_exchanger_oil.ins[0]
    hx_oil_out,         \* R301.heat_exchanger_oil.outs[0]
    mixed_in,           \* R301._mixed_in
    inferred,           \* the inlet temperature R301 inferred in a design, once it has
    rigorous,           \* M501.rigorous
    again,              \* whether the run of M501 executed last directly followed another
    hydrogen_handling,  \* the argument of system_TEA
    phase,              \* how far system_TEA has come
    pos1,               \* inside sys1: the place in its path of the unit that runs next
    pass1,              \* inside sys1: the number of its pass under way, 0 once it has converged
    runs,               \* how often each unit has run in the pass under way of its system
    tear,               \* the recycle flows of sys1 and sys2 when their pass began
    summary,            \* the design and cost steps executed, in order
    err,                \* the exception that ended the simulation, or "none"
    last                \* the operation executed last

tankVars  == <<M201, feed, makeup_solvent, recycled_solvent, dissolution, undissolved>>
psaVars   == <<PSA401, gases_in, effluent>>
mixerVars == <<makeup_hydrogen, extra_ins, s_out, B>>
elecVars  == <<PEM501, water_required, oxygen>>
reactorVars  == <<R301, heavy_oil, catalyst_in, hc_out, catalyst_out, hc_reacting>>
conveyorVars == <<C101, C102, feedstock, ss101, ss102>>
passVars  == <<pos, pass, stamp>>
auxVars   == <<IC, IC_in, IC_out, hx_H2_in, hx_H2_out, hx_oil_in, hx_oil_out, mixed_in,
               inferred>>
lifeVars  == <<hydrogen_handling, phase, pos1, pass1, runs, tear, summary>>
\* what no run of a unit touches
restVars  == <<auxVars, rigorous, again, lifeVars>>
vars      == <<tankVars, psaVars, hydrogen_recovered, mixerVars, elecVars, reactorVars,
               conveyorVars, passVars, restVars, err, last>>

-----------------------------------------------------------------------------
(* Bounds of the model *)

MaxFeedK    == 2    \* solid feeds offered to the tank: up to MaxFeedK x 20000 kg/h
MaxRecycleK == 2    \* solvent recycle guesses: up to MaxRecycleK x 78125.25 kg/h
MaxFlowK    == 2    \* gas flows offered to PSA and mixer: up to MaxFlowK x 7 kg/h
MaxLightK   == 1    \* light gases offered to the PSA: up to MaxLightK x 0.5 kg/h each
MaxIns      == 3    \* inlets a mixer is built with
MaxMakeupK  == 8    \* makeup asked of the electrolyser: up to MaxMakeupK x 35 kg/h
MaxOilK     == 2    \* LDPE offered to the reactor: up to MaxOilK x 336 mol/h
MaxFeedPWK  == 2    \* plastic waste a conveyor is built for: up to MaxFeedPWK x 10416.7 kg/h
MaxPasses   == 2    \* convergence passes of sys2 in one simulation

-----------------------------------------------------------------------------
(* Chemicals and arithmetic *)

IDs ==
    {"LDPE", "polycrude", "impurities", "catalyst", "C1H4", "C2H6", "C3H8",
     "C4H10", "C5H12", "C6H14", "C7H16", "C8H18", "C9H20", "C10H22",
     "C11H24", "C12H26", "H2", "H2O", "O2"}

Frac(n, d) == [num |-> n, den |-> d]

OneMinus(f) == [num |-> f.den - f.num, den |-> f.den]

\* f * x, without leaving 32 bits
Mul(f, x) == (x \div f.den) * f.num + ((x % f.den) * f.num) \div f.den

\* x / f
Div(x, f) == (x * f.den) \div f.num

Min(S) == CHOOSE x \in S : \A y \in S : x <= y

\* Python's None
None == [none |-> TRUE]

IsNone(v) == "none" \in DOMAIN v

-----------------------------------------------------------------------------
(* Exact fractions *)

RECURSIVE GCD(_, _)
GCD(a, b) == IF b = 0 THEN a ELSE GCD(b, a % b)

Abs(x) == IF x < 0 THEN 0 - x ELSE x

\* n / d in lowest terms, d > 0
Norm(n, d) == LET g == GCD(Abs(n), d) IN [num |-> n \div g, den |-> d \div g]

R(n) == [num |-> n, den |-> 1]

\* products stay within 32 bits because common factors are removed first
RMul(a, b) ==
    LET g1 == GCD(Abs(a.num), b.den)
        g2 == GCD(Abs(b.num), a.den)
    IN  Norm((a.num \div g1) * (b.num \div g2), (a.den \div g2) * (b.den \div g1))

RDiv(a, b) == RMul(a, [num |-> b.den, den |-> b.num])

RAdd(a, b) ==
    LET g == GCD(a.den, b.den)
    IN  Norm(a.num * (b.den \div g) + b.num * (a.den \div g), (a.den \div g) * b.den)

RSub(a, b) == RAdd(a, [num |-> 0 - b.num, den |-> b.den])

\* the whole number a fraction stands for
ToInt(a) == a.num \div a.den

-----------------------------------------------------------------------------
(* Streams *)

NoFlow == [c \in IDs |-> 0]

\* a stream as the flowsheet creates it from an ID: empty, liquid, 298.15 K, 1 atm
EmptyStream == [imass |-> NoFlow, phase |-> "l", T |-> 29815, P |-> 101325]

SetMass(s, c, v) == [s EXCEPT !.imass[c] = v]

-----------------------------------------------------------------------------
(* Dissolution tank *)

DefaultFeedPW == 10416700

DefaultMaxSolubility == Frac(33, 100)

BaselineConcentration == Frac(1, 10)

\* samples of Uniform(0.09, 0.33)
ConcentrationValues == {Frac(1, 10), Frac(1, 4)}

\* LDPE fed: nothing, the conveyor's 0.95 x feedPW, the saturation limit at
\* concentration 1/4, and a grid
FeedLDPEValues == {0, 9895865, 13750044} \cup {20000000 * k : k \in 1..MaxFeedK}

\* the conveyor's 0.05 x feedPW
FeedImpuritiesValues == {520835}

RecycleValues == {78125250 * k : k \in 0..MaxRecycleK}

InitTank ==
    /\ M201 = [feedPW |-> DefaultFeedPW,
               LDPE_concentration |-> BaselineConcentration,
               max_solubility |-> DefaultMaxSolubility]
    /\ feed = [EmptyStream EXCEPT !.phase = "s"]
    /\ makeup_solvent = EmptyStream
    /\ recycled_solvent = EmptyStream
    /\ dissolution = EmptyStream
    /\ undissolved = EmptyStream

solvent_needed(u) == Div(u.feedPW, u.LDPE_concentration)

\* the makeup inlet after line 84
MakeupIgnoringRecycle(u, recycled) == solvent_needed(u)

MakeupFlow(u, recycled) == solvent_needed(u) - recycled.imass["C12H26"]

max_ldpe_dissolved(u, dodecane_mass) == Mul(u.max_solubility, dodecane_mass)

FullyDissolved(ldpe_mass, limit) == ldpe_mass <= limit

\* the two outlets after the branch taken, from the outlets before the run
TankOutsBranchA(d, w, ldpe_mass, undissolved_mass, dodecane_mass, T) ==
    <<[d EXCEPT !.imass["LDPE"] = ldpe_mass,
                !.imass["C12H26"] = dodecane_mass,
                !.phase = "l",
                !.T = T],
      [w EXCEPT !.imass["impurities"] = undissolved_mass,
                !.phase = "s",
                !.T = 29815]>>

TankOutsBranchB(d, w, ldpe_mass, undissolved_mass, dodecane_mass, limit, T) ==
    <<[d EXCEPT !.imass["LDPE"] = limit,
                !.imass["C12H26"] = dodecane_mass,
                !.phase = "l",
                !.T = T],
      [w EXCEPT !.imass["impurities"] = undissolved_mass,
                !.imass["LDPE"] = ldpe_mass - limit,
                !.phase = "s",
                !.T = 29815]>>

\* lines 83-112: the makeup inlet and the two outlets that a run leaves when
\* it finds the recycle stream recycled
TankWrites(recycled) ==
    LET makeup1  == SetMass(makeup_solvent, "C12H26", MakeupFlow(M201, recycled))
        ldpe     == feed.imass["LDPE"]
        insol    == feed.imass["impurities"]
        dodecane == makeup1.imass["C12H26"] + recycled.imass["C12H26"]
        limit    == max_ldpe_dissolved(M201, dodecane)
        outs     == IF FullyDissolved(ldpe, limit)
                    THEN TankOutsBranchA(dissolution, undissolved, ldpe, insol,
                                         dodecane, recycled.T)
                    ELSE TankOutsBranchB(dissolution, undissolved, ldpe, insol,
                                         dodecane, limit, recycled.T)
    IN  [makeup_solvent |-> makeup1, dissolution |-> outs[1], undissolved |-> outs[2]]

\* Dissolution_tank._run
TankRun ==
    /\ err = "none"
    /\ LET w == TankWrites(recycled_solvent)
       IN  /\ makeup_solvent' = w.makeup_solvent
           /\ dissolution' = w.dissolution
           /\ undissolved' = w.undissolved
    /\ last' = "Dissolution_tank._run"
    /\ UNCHANGED <<elecVars, reactorVars, conveyorVars, M201, feed, recycled_solvent, psaVars, hydrogen_recovered, mixerVars, err>>

\* the upstream conveyor C102 delivers the solid feed
TankFeedWrite ==
    /\ err = "none"
    /\ \E l \in FeedLDPEValues, i \in FeedImpuritiesValues :
          feed' = [feed EXCEPT !.imass["LDPE"] = l, !.imass["impurities"] = i]
    /\ last' = "feed"
    /\ UNCHANGED <<elecVars, reactorVars, conveyorVars, M201, makeup_solvent, recycled_solvent, dissolution, undissolved,
                   psaVars, hydrogen_recovered, mixerVars, err>>

\* the pump P201 delivers the solvent recycle at the temperature HX202 sets
TankRecycleWrite ==
    /\ err = "none"
    /\ \E r \in RecycleValues :
          recycled_solvent' = [recycled_solvent EXCEPT !.imass["C12H26"] = r, !.T = 38315]
    /\ last' = "solvent_recycle"
    /\ UNCHANGED <<elecVars, reactorVars, conveyorVars, M201, feed, makeup_solvent, dissolution, undissolved,
                   psaVars, hydrogen_recovered, mixerVars, err>>

\* the model parameter LDPE_concentration is set between simulations
set_LDPE_concentration ==
    /\ err = "none"
    /\ \E c \in ConcentrationValues : M201' = [M201 EXCEPT !.LDPE_concentration = c]
    /\ last' = "set_LDPE_concentration"
    /\ UNCHANGED <<elecVars, reactorVars, conveyorVars, feed, makeup_solvent, recycled_solvent, dissolution, undissolved,
                   psaVars, hydrogen_recovered, mixerVars, err>>

NextTank ==
    \/ TankFeedWrite /\ UNCHANGED <<passVars, restVars>>
    \/ TankRecycleWrite /\ UNCHANGED <<passVars, restVars>>
    \/ set_LDPE_concentration /\ UNCHANGED <<passVars, restVars>>
    \/ TankRun /\ UNCHANGED <<passVars, restVars>>

-----------------------------------------------------------------------------
(* Pressure swing adsorption *)

\* samples of Uniform(0.80, 0.90)
EfficiencyValues == {Frac(4, 5), Frac(85, 100), Frac(9, 10)}

GasH2Values == {7000 * k : k \in 0..MaxFlowK}

\* the hydrocarbons the compressor IC401 delivers with the hydrogen
LightIDs == {"C3H8", "C12H26"}

LightValues == {500 * k : k \in 1..MaxLightK}

InitPSA ==
    /\ PSA401 = [T |-> 32315, P |-> 1500000, efficiency |-> Frac(85, 100)]
    /\ gases_in = EmptyStream
    /\ effluent = EmptyStream
    /\ hydrogen_recovered = EmptyStream

\* line 83
HydrogenRecoveredFlow(efficiency, feedH2) == Mul(efficiency, feedH2)

\* line 86
NotRecoveredByEfficiency(efficiency, feedH2) == Mul(efficiency, feedH2)

hydrogen_notrecovered(efficiency, feedH2) == Mul(OneMinus(efficiency), feedH2)

\* the loop of lines 89-91: the effluent's flows e after it, for the feed's flows f
EffluentAccumulating(e, f) == [c \in IDs |-> IF c # "H2" THEN e[c] + f[c] ELSE e[c]]

EffluentCarryover(e, f) == [c \in IDs |-> IF c # "H2" THEN f[c] ELSE e[c]]

\* PSA._run
PSARun ==
    /\ err = "none"
    /\ LET h == gases_in.imass["H2"]
           e1 == [effluent EXCEPT !.P = 151685, !.T = PSA401.T]
           h1 == [hydrogen_recovered EXCEPT
                     !.P = Mul(Frac(96, 100), PSA401.P),
                     !.T = PSA401.T,
                     !.imass["H2"] = HydrogenRecoveredFlow(PSA401.efficiency, h),
                     !.phase = "g"]
           e2 == SetMass(e1, "H2", hydrogen_notrecovered(PSA401.efficiency, h))
       IN  /\ hydrogen_recovered' = h1
           /\ effluent' = [e2 EXCEPT !.imass = EffluentCarryover(e2.imass, gases_in.imass),
                                     !.phase = "g"]
    /\ last' = "PSA._run"
    /\ UNCHANGED <<elecVars, reactorVars, conveyorVars, PSA401, gases_in, tankVars, mixerVars, err>>

\* the compressor IC401 delivers the gases
PSAFeedWrite ==
    /\ err = "none"
    /\ \E h \in GasH2Values, X \in SUBSET LightIDs, v \in LightValues :
          gases_in' = [gases_in EXCEPT
                          !.imass = [c \in IDs |-> IF c = "H2" THEN h
                                                   ELSE IF c \in X THEN v ELSE 0],
                          !.phase = "g"]
    /\ last' = "gases_in"
    /\ UNCHANGED <<elecVars, reactorVars, conveyorVars, PSA401, effluent, hydrogen_recovered, tankVars, mixerVars, err>>

\* the model parameter PSA_Hydrogen_Recovery is set between simulations
set_H2_recovery ==
    /\ err = "none"
    /\ \E e \in EfficiencyValues : PSA401' = [PSA401 EXCEPT !.efficiency = e]
    /\ last' = "set_H2_recovery"
    /\ UNCHANGED <<elecVars, reactorVars, conveyorVars, gases_in, effluent, hydrogen_recovered, tankVars, mixerVars, err>>

NextPSA ==
    \/ PSAFeedWrite /\ UNCHANGED <<passVars, restVars>>
    \/ set_H2_recovery /\ UNCHANGED <<passVars, restVars>>
    \/ PSARun /\ UNCHANGED <<passVars, restVars>>

-----------------------------------------------------------------------------
(* Hydrogen mixer *)

DemandValues == {7000 * k : k \in 0..MaxFlowK}

\* a component other than hydrogen that an inlet may carry
TraceValues == {0, 500}

InitMixer ==
    /\ makeup_hydrogen = [EmptyStream EXCEPT !.phase = "g", !.P = 1379000]
    /\ s_out = EmptyStream
    /\ B = [kind |-> "unset"]
    /\ again = FALSE

\* self.ins
MixerIns == <<makeup_hydrogen, hydrogen_recovered>> \o extra_ins

\* the unpacking of line 60 needs exactly two inlets
UnpacksTwo(ins) == Len(ins) = 2

\* line 65 without the recovered hydrogen
RequiredOfOutletOnly(out, recovered) == out.imass["H2"]

\* line 65
required_H2_mass(out, recovered) == out.imass["H2"] - recovered.imass["H2"]

isempty(s) == \A c \in IDs : s.imass[c] = 0

RECURSIVE SumFlow(_, _, _)
SumFlow(ins, c, n) == IF n = 0 THEN 0 ELSE SumFlow(ins, c, n - 1) + ins[n].imass[c]

\* the flows Stream.mix_from gives the outlet: the sum over the inlets.  Its
\* pressure is the lowest of the inlets that carry flow; its temperature and
\* phase come from the property package's energy balance and are left to any
\* value found among those inlets.
MixedFlowsFirstOnly(ins) == [c \in IDs |-> ins[1].imass[c]]

MixedFlows(ins) == [c \in IDs |-> SumFlow(ins, c, Len(ins))]

\* Stream.vapor_fraction: of a stream in two phases the fraction V its
\* equilibrium left, of a stream in one phase 1 or 0
vapor_fraction(s) ==
    IF s.phase = "gl" THEN s.V
    ELSE IF s.phase = "g" THEN Frac(1, 1) ELSE Frac(0, 1)

\* vapor fractions the equilibrium of a rigorous blend may leave
VaporFractions == {Frac(0, 1), Frac(1, 4), Frac(1, 1)}

\* the phase data mix_from gives the blend of the inlets ins, of which those
\* in full carry flow: with vle the equilibrium's, without it an inlet's
BlendPhases(ins, full) ==
    IF rigorous
    THEN {IF V.num = 0 THEN [phase |-> "l"]
          ELSE IF V.num = V.den THEN [phase |-> "g"]
          ELSE [phase |-> "gl", V |-> V] : V \in VaporFractions}
    ELSE {[phase |-> ins[i].phase] : i \in full}

\* lines 70-76 with the two pure phases exchanged
SplitInverted(V) ==
    IF V.num = 0 THEN [kind |-> "inf"]
    ELSE IF V.num = V.den THEN [kind |-> "zero"]
    ELSE [kind |-> "ratio", num |-> V.den - V.num, den |-> V.num]

\* lines 70-76
SplitCoefficient(V) ==
    IF V.num = 0 THEN [kind |-> "zero"]
    ELSE IF V.num = V.den THEN [kind |-> "inf"]
    ELSE [kind |-> "ratio", num |-> V.num, den |-> V.den - V.num]

\* the inlets the blend of line 68 reads, given those before and after line 66
BlendStale(before, after) == before

BlendInlets(before, after) == after

\* Mixer._run with two inlets
MixerRunTwo ==
    /\ err = "none"
    /\ UnpacksTwo(MixerIns)
    /\ LET makeup1 == SetMass(makeup_hydrogen, "H2",
                              required_H2_mass(s_out, hydrogen_recovered))
           ins1    == BlendInlets(MixerIns, <<makeup1, hydrogen_recovered>>)
           full    == {i \in 1..Len(ins1) : ~isempty(ins1[i])}
       IN  /\ makeup_hydrogen' = makeup1
           /\ IF full = {}
              THEN s_out' = [s_out EXCEPT !.imass = MixedFlows(ins1)]
              ELSE \E ph \in BlendPhases(ins1, full), j \in full :
                      s_out' = ph @@ [imass |-> MixedFlows(ins1),
                                      T     |-> ins1[j].T,
                                      P     |-> Min({ins1[k].P : k \in full})]
           /\ B' = SplitCoefficient(vapor_fraction(s_out'))
    /\ last' = "Mixer._run"
    /\ UNCHANGED <<elecVars, reactorVars, conveyorVars, extra_ins, hydrogen_recovered, tankVars, psaVars, err>>

\* Mixer._run with another number of inlets: line 60 raises
MixerRunUnpackError ==
    /\ err = "none"
    /\ ~UnpacksTwo(MixerIns)
    /\ err' = "ValueError"
    /\ last' = "Mixer._run"
    /\ UNCHANGED <<elecVars, reactorVars, conveyorVars, makeup_hydrogen, extra_ins, s_out, B, hydrogen_recovered, tankVars, psaVars>>

MixerRun == MixerRunTwo \/ MixerRunUnpackError

\* the reactor R301 writes its hydrogen demand on its hydrogen inlet, the mixer's outlet
DemandWrite ==
    /\ err = "none"
    /\ \E d \in DemandValues : s_out' = [s_out EXCEPT !.imass["H2"] = d, !.phase = "g"]
    /\ last' = "demand"
    /\ UNCHANGED <<elecVars, reactorVars, conveyorVars, makeup_hydrogen, extra_ins, B, hydrogen_recovered, tankVars, psaVars, err>>

\* PSA401 writes the recovered hydrogen
RecoveredWrite ==
    /\ err = "none"
    /\ \E h \in GasH2Values :
          hydrogen_recovered' = [hydrogen_recovered EXCEPT
                                    !.P = Mul(Frac(96, 100), PSA401.P),
                                    !.T = PSA401.T,
                                    !.imass["H2"] = HydrogenRecoveredFlow(PSA401.efficiency, h),
                                    !.phase = "g"]
    /\ last' = "hydrogen_recovered"
    /\ UNCHANGED <<elecVars, reactorVars, conveyorVars, makeup_hydrogen, extra_ins, s_out, B, tankVars, psaVars, err>>

\* the supplier of the makeup inlet or of a further inlet delivers a trace component
InletWrite ==
    /\ err = "none"
    /\ \E v \in TraceValues :
          \/ /\ makeup_hydrogen' = SetMass(makeup_hydrogen, "H2O", v)
             /\ UNCHANGED extra_ins
          \/ /\ \E i \in 1..Len(extra_ins) :
                   extra_ins' = [extra_ins EXCEPT ![i] = SetMass(@, "H2O", v)]
             /\ UNCHANGED makeup_hydrogen
    /\ last' = "inlet"
    /\ UNCHANGED <<elecVars, reactorVars, conveyorVars, s_out, B, hydrogen_recovered, tankVars, psaVars, err>>

\* departures the solver of the library hands to _update_energy_variable, K
DepartureValues == {Frac(0 - 3, 1)}

\* B + departure
Departed(b, d) ==
    IF b.kind = "inf" THEN b
    ELSE IF b.kind = "zero" THEN [kind |-> "ratio", num |-> d.num, den |-> d.den]
    ELSE LET sum == RAdd([num |-> b.num, den |-> b.den], d)
         IN  [kind |-> "ratio", num |-> sum.num, den |-> sum.den]

\* Mixer._update_energy_variable, once after a run and while the outlet stays
\* within 3 K of an inlet
update_energy_variable ==
    /\ err = "none"
    /\ last = "Mixer._run"
    /\ \E d \in DepartureValues :
          IF s_out.phase = "gl"
          THEN B' = Departed(B, d) /\ UNCHANGED s_out
          ELSE LET T == s_out.T + ToInt(RMul(d, R(100)))
               IN  /\ \E i \in 1..Len(MixerIns) : Abs(T - MixerIns[i].T) <= 300
                   /\ s_out' = [s_out EXCEPT !.T = T]
                   /\ UNCHANGED B
    /\ last' = "Mixer._update_energy_variable"
    /\ UNCHANGED <<elecVars, reactorVars, conveyorVars, makeup_hydrogen, extra_ins,
                   hydrogen_recovered, tankVars, psaVars, err>>

\* what a step of the mixer leaves alone besides its own streams
mixerFrame == <<passVars, auxVars, rigorous, lifeVars>>

NextMixer ==
    \/ DemandWrite /\ again' = FALSE /\ UNCHANGED mixerFrame
    \/ RecoveredWrite /\ again' = FALSE /\ UNCHANGED mixerFrame
    \/ InletWrite /\ again' = FALSE /\ UNCHANGED mixerFrame
    \/ update_energy_variable /\ again' = FALSE /\ UNCHANGED mixerFrame
    \/ MixerRun /\ again' = (last = "Mixer._run") /\ UNCHANGED mixerFrame

\* the mixer between its two inlets and the solver of the system
NextSplit ==
    \/ DemandWrite /\ again' = FALSE /\ UNCHANGED mixerFrame
    \/ RecoveredWrite /\ again' = FALSE /\ UNCHANGED mixerFrame
    \/ update_energy_variable /\ again' = FALSE /\ UNCHANGED mixerFrame
    \/ MixerRun /\ again' = (last = "Mixer._run") /\ UNCHANGED mixerFrame

-----------------------------------------------------------------------------
(* Electrolysis *)

\* hydrogen the mixer M501 asks of the electrolyser: an oversupply (negative),
\* nothing, or a shortfall
MakeupValues == {35000 * k : k \in (0 - 1)..MaxMakeupK}

InitElectrolysis ==
    /\ PEM501 = [T |-> 35315, P |-> 3102642]
    /\ water_required = [EmptyStream EXCEPT !.P = 101324]
    /\ oxygen = EmptyStream

RECURSIVE TotalFlow(_, _)
TotalFlow(imass, S) ==
    IF S = {} THEN 0
    ELSE LET c == CHOOSE x \in S : TRUE
         IN  imass[c] + TotalFlow(imass, S \ {c})

\* Stream.F_mass: the mass flow of all components together
F_mass(s) == TotalFlow(s.imass, IDs)

\* line 66, with the two factors exchanged
WaterInverted(D) == Mul(Frac(350, 379), D)

\* line 66: 3.79 kg of water for 3.5 kg of hydrogen
WaterRequired(D) == Mul(Frac(379, 350), D)

\* line 67: 7.94 kg of oxygen per kg of hydrogen
OxygenProduced(D) == Mul(Frac(794, 100), D)

\* the hydrogen outlet if line 65 were not commented out: its flow computed
\* forward from the water inlet
HydrogenOutForward(u, h, w) ==
    [h EXCEPT !.imass["H2"] = Mul(Frac(1000, 13265), F_mass(w)),
              !.phase = "g", !.T = u.T, !.P = u.P]

\* lines 68, 71, 72: what _run does to its hydrogen outlet
HydrogenOut(u, h, w) == [h EXCEPT !.phase = "g", !.T = u.T, !.P = u.P]

\* Electrolysis._run
ElectrolysisRun ==
    /\ err = "none"
    /\ LET D == F_mass(makeup_hydrogen)
       IN  /\ water_required' = [SetMass(water_required, "H2O", WaterRequired(D))
                                    EXCEPT !.phase = "l"]
           /\ oxygen' = [SetMass(oxygen, "O2", OxygenProduced(D))
                            EXCEPT !.phase = "g", !.T = PEM501.T, !.P = 101324]
    /\ makeup_hydrogen' = HydrogenOut(PEM501, makeup_hydrogen, water_required)
    /\ last' = "Electrolysis._run"
    /\ UNCHANGED <<PEM501, extra_ins, s_out, B, hydrogen_recovered, tankVars, psaVars,
                   reactorVars, conveyorVars, err>>

\* the mixer M501 writes the makeup it requires on the electrolyser's hydrogen outlet
MakeupWrite ==
    /\ err = "none"
    /\ \E d \in MakeupValues : makeup_hydrogen' = SetMass(makeup_hydrogen, "H2", d)
    /\ last' = "makeup"
    /\ UNCHANGED <<elecVars, extra_ins, s_out, B, hydrogen_recovered, tankVars, psaVars,
                   reactorVars, conveyorVars, err>>

NextElectrolysis ==
    \/ MakeupWrite /\ UNCHANGED <<passVars, restVars>>
    \/ ElectrolysisRun /\ UNCHANGED <<passVars, restVars>>

-----------------------------------------------------------------------------
(* Hydrocracking reactor *)

\* carbon and hydrogen atoms of the molecules that react
Atoms ==
    [LDPE      |-> [C |-> 2500, H |-> 5002],
     polycrude |-> [C |-> 35,   H |-> 72],
     C3H8      |-> [C |-> 3,    H |-> 8],
     C4H10     |-> [C |-> 4,    H |-> 10],
     H2        |-> [C |-> 0,    H |-> 2]]

\* grams per mole, with the atomic weights 12 and 1 that the factor 2 of
\* line 194 takes for hydrogen
MW(c) == 12 * Atoms[c].C + Atoms[c].H

\* the products of the three parallel reactions, in the order of lines 164-166
Products == <<"polycrude", "C3H8", "C4H10">>

\* 'LDPE + H2 -> p' with its atoms balanced, per mole of LDPE: moles of p formed
ProductCoef(p) == Norm(Atoms["LDPE"].C, Atoms[p].C)

\* and moles of hydrogen taken up
HydrogenCoef(p) ==
    RMul(RSub(RMul(ProductCoef(p), R(Atoms[p].H)), R(Atoms["LDPE"].H)), Frac(1, 2))

\* lines 164-166 and 170-172
Conversions(Y) ==
    <<Y, RMul(OneMinus(Y), Frac(17, 100)), RMul(OneMinus(Y), Frac(83, 100))>>

\* samples of Triangle(0.9 x 0.91, 0.91, 1)
YieldValues == {Frac(91, 100), Frac(21, 25), Frac(1, 1)}

\* samples of Uniform(2, 8.25)
ExcessValues == {Frac(15, 2), Frac(2, 1)}

\* components a reactor may be told its catalyst is
CatalystIDs == {"catalyst", "impurities"}

\* the dissolved LDPE that HX301 delivers, k x 336 mol/h, in nine times its
\* mass of solvent
HeavyOilValues ==
    {[NoFlow EXCEPT !["LDPE"] = 11760672 * k, !["C12H26"] = 105846048 * k] :
        k \in 0..MaxOilK}

RNoFlow == [c \in IDs |-> R(0)]

\* the attributes of R301 as the flowsheet builds it, for a catalyst component
\* and an inlet temperature; P is the constructor's default
R301AsBuilt(catalyst_ID, HCin_T) ==
    [WHSV |-> Frac(1, 2), catalyst_lifetime |-> 26280,
     catalyst_ID |-> catalyst_ID, hydrogen_P |-> 1170000,
     hydrogen_excess |-> Frac(15, 2), HCin_T |-> HCin_T,
     polycrude_yield |-> Frac(91, 100), HCrxn_T |-> 57315, P |-> None,
     X |-> Conversions(Frac(91, 100))]

\* the streams of R301 as the flowsheet creates them
InitReactorStreams ==
    /\ heavy_oil = [EmptyStream EXCEPT !.T = 57315, !.P = 1170000]
    /\ catalyst_in = [imass |-> RNoFlow, phase |-> "s", T |-> 29800, P |-> 101325]
    /\ hc_out = [imass |-> RNoFlow, T |-> 29815, P |-> 101325]
    /\ catalyst_out = [imass |-> RNoFlow, phase |-> "l", T |-> 29815, P |-> 101325]
    /\ hc_reacting = RNoFlow

\* R301 as the flowsheet builds it; HCin_T is the temperature of HX301
InitReactorWith(catalyst_ID) ==
    /\ R301 = R301AsBuilt(catalyst_ID, R(57315))
    /\ InitReactorStreams

InitReactor == InitReactorWith("catalyst")

\* the conversions the reactions keep from the last update
StaleReactions(u) == u.X

\* update_reactions
update_reactions(u) == Conversions(u.polycrude_yield)

\* lines 189-192: the sum over the reactions of X times the hydrogen coefficient
hydrogen_stoichiometric(X) ==
    RAdd(RAdd(RMul(X[1], HydrogenCoef(Products[1])),
              RMul(X[2], HydrogenCoef(Products[2]))),
         RMul(X[3], HydrogenCoef(Products[3])))

\* Stream.imol
imol(s, c) == Norm(s.imass[c], MW(c))

\* line 194
hydrogen_rxned(X, heavy) ==
    RMul(RMul(hydrogen_stoichiometric(X), imol(heavy, "LDPE")), R(2))

\* line 195 with the factor of line 200
HydrogenFedNet(u, X, heavy) ==
    RMul(hydrogen_rxned(X, heavy), RSub(u.hydrogen_excess, R(1)))

\* line 195
HydrogenFed(u, X, heavy) == RMul(hydrogen_rxned(X, heavy), u.hydrogen_excess)

\* line 182
CatalystFlow(u, heavy) ==
    RDiv(RDiv(R(heavy.imass["LDPE"]), u.WHSV), R(u.catalyst_lifetime))

\* line 201: mix_from overwrites the outlet with the sum of the three inlets
MixedIn(heavy, hydrogen, catalyst) ==
    [c \in IDs |-> RAdd(RAdd(R(heavy.imass[c]), R(hydrogen.imass[c])), catalyst.imass[c])]

\* line 203: the parallel reactions applied to a mixture, each on the LDPE present
React(X, imass) ==
    LET n == RDiv(imass["LDPE"], R(MW("LDPE")))
        made(i) == RMul(RMul(RMul(X[i], ProductCoef(Products[i])), n), R(MW(Products[i])))
        used == RMul(RMul(hydrogen_stoichiometric(X), n), R(MW("H2")))
        gone == RMul(RMul(RAdd(RAdd(X[1], X[2]), X[3]), n), R(MW("LDPE")))
    IN  [c \in IDs |->
            IF c = "LDPE" THEN RSub(imass[c], gone)
            ELSE IF c = "H2" THEN RSub(imass[c], used)
            ELSE IF \E i \in 1..3 : Products[i] = c
                 THEN RAdd(imass[c], made(CHOOSE i \in 1..3 : Products[i] = c))
                 ELSE imass[c]]

\* Hydrocracking_reactor._run
ReactorRun ==
    /\ err = "none"
    /\ LET X       == update_reactions(R301)
           cat1    == [catalyst_in EXCEPT
                          !.imass[R301.catalyst_ID] = CatalystFlow(R301, heavy_oil),
                          !.phase = "s"]
           hyd1    == [s_out EXCEPT
                          !.imass["H2"] = ToInt(HydrogenFed(R301, X, heavy_oil)),
                          !.phase = "g"]
           mixed   == MixedIn(heavy_oil, hyd1, cat1)
           reacted == React(X, mixed)
       IN  /\ R301' = [R301 EXCEPT !.X = X]
           /\ catalyst_in' = cat1
           /\ catalyst_out' = cat1
           /\ s_out' = hyd1
           /\ hc_reacting' = mixed
           /\ hc_out' = [imass |-> [reacted EXCEPT !["LDPE"] = R(0), !["catalyst"] = R(0)],
                         T |-> R301.HCrxn_T, P |-> heavy_oil.P]
    /\ last' = "Hydrocracking_reactor._run"
    /\ UNCHANGED <<heavy_oil, makeup_hydrogen, extra_ins, B, hydrogen_recovered,
                   tankVars, psaVars, elecVars, conveyorVars, err>>

\* HX301 delivers the heated solution
HeavyOilWrite ==
    /\ err = "none"
    /\ \E f \in HeavyOilValues : heavy_oil' = [heavy_oil EXCEPT !.imass = f]
    /\ last' = "heavy_oil"
    /\ UNCHANGED <<R301, catalyst_in, hc_out, catalyst_out, hc_reacting, mixerVars,
                   hydrogen_recovered, tankVars, psaVars, elecVars, conveyorVars, err>>

set_Polycrude_yield ==
    /\ err = "none"
    /\ \E i \in YieldValues : R301' = [R301 EXCEPT !.polycrude_yield = i]
    /\ last' = "set_Polycrude_yield"
    /\ UNCHANGED <<heavy_oil, catalyst_in, hc_out, catalyst_out, hc_reacting, mixerVars,
                   hydrogen_recovered, tankVars, psaVars, elecVars, conveyorVars, err>>

set_Excess_of_H2 ==
    /\ err = "none"
    /\ \E i \in ExcessValues : R301' = [R301 EXCEPT !.hydrogen_excess = i]
    /\ last' = "set_Excess_of_H2"
    /\ UNCHANGED <<heavy_oil, catalyst_in, hc_out, catalyst_out, hc_reacting, mixerVars,
                   hydrogen_recovered, tankVars, psaVars, elecVars, conveyorVars, err>>

NextReactor ==
    \/ HeavyOilWrite /\ UNCHANGED <<passVars, restVars>>
    \/ set_Polycrude_yield /\ UNCHANGED <<passVars, restVars>>
    \/ set_Excess_of_H2 /\ UNCHANGED <<passVars, restVars>>
    \/ ReactorRun /\ UNCHANGED <<passVars, restVars>>

-----------------------------------------------------------------------------
(* The paths of the on-site production flowsheet *)

\* the units of sys1, in the order they run
sys1_path ==
    <<"C101", "G101", "C102", "ST201", "M201", "P301", "HX301", "R301", "F401",
      "F402", "M401", "P401", "D401", "HX401", "ST401", "HX201", "HX202", "P201">>

\* the path of sys2 with its last two units exchanged
sys2_path_electrolysis_first ==
    <<"sys1", "HX402", "IC401", "PSA401", "S401", "IC402", "HX403", "HX404",
      "ST402", "PEM501", "M501">>

\* the units of sys2, in the order they run; its recycle is the outlet of M501
sys2_path ==
    <<"sys1", "HX402", "IC401", "PSA401", "S401", "IC402", "HX403", "HX404",
      "ST402", "M501", "PEM501">>

-----------------------------------------------------------------------------
(* Conveyor, grinder and granulate conveyor *)

\* samples of Uniform(0.90, 0.99)
PurityValues == {Frac(95, 100), Frac(9, 10), Frac(99, 100)}

\* what the constructor is handed: a sample, a fraction above one, a negative
\* fraction, or nothing
PurityArguments == PurityValues \cup {Frac(6, 5), Frac(0 - 1, 10), None}

FeedPWValues == {10416700 * k : k \in 1..MaxFeedPWK}

\* Stream.rho of the inlet as the property package gives it, kg/m3
DensityValues == {None, R(0), R(920)}

\* the keys of design_results
ConveyorKeys == {"Conveyor_feed", "Conveyor_volumetricflow", "Power", "Width", "Length"}

\* a unit before its first design; volumetric_flow is the local of _design
NoDesign == [density |-> None, volumetric_flow |-> "unset", design_results |-> {},
             power_utility |-> FALSE]

InitConveyorWith(feedPW, purity_factor) ==
    /\ C101 = [feedPW |-> feedPW, purity_factor |-> purity_factor, design |-> NoDesign]
    /\ C102 = [design |-> NoDesign]
    /\ feedstock = [EmptyStream EXCEPT !.phase = "s"]
    /\ ss101 = EmptyStream
    /\ ss102 = EmptyStream

\* line 140 of the flowsheet
InitConveyors == InitConveyorWith(DefaultFeedPW, Frac(95, 100))

\* line 84 with the purity itself
ImpuritiesAsPurity(u) == Mul(u.purity_factor, u.feedPW)

\* line 81
LDPEin(u) == Mul(u.purity_factor, u.feedPW)

\* line 84
Impuritiesin(u) == Mul(OneMinus(u.purity_factor), u.feedPW)

\* Conveyor._run with a purity factor that is a number
ConveyorRunWrites ==
    /\ err = "none"
    /\ ~IsNone(C101.purity_factor)
    /\ feedstock' = SetMass(SetMass(feedstock, "LDPE", LDPEin(C101)),
                            "impurities", Impuritiesin(C101))
    /\ ss101' = SetMass(SetMass(ss101, "LDPE", feedstock'.imass["LDPE"]),
                        "impurities", feedstock'.imass["impurities"])
    /\ last' = "Conveyor._run"
    /\ UNCHANGED <<C101, C102, ss102, tankVars, psaVars, hydrogen_recovered, mixerVars,
                   elecVars, reactorVars, err>>

\* Conveyor._run without a purity factor: the product of line 81 raises
ConveyorRunTypeError ==
    /\ err = "none"
    /\ IsNone(C101.purity_factor)
    /\ err' = "TypeError"
    /\ last' = "Conveyor._run"
    /\ UNCHANGED <<conveyorVars, tankVars, psaVars, hydrogen_recovered, mixerVars,
                   elecVars, reactorVars>>

ConveyorRun == ConveyorRunWrites \/ ConveyorRunTypeError

\* Stream.copy_like: flows, phase, temperature and pressure
copy_like(other) == other

\* Grinder._run
GrinderRun ==
    /\ err = "none"
    /\ ss102' = copy_like(ss101)
    /\ last' = "Grinder._run"
    /\ UNCHANGED <<C101, C102, feedstock, ss101, tankVars, psaVars, hydrogen_recovered,
                   mixerVars, elecVars, reactorVars, err>>

\* Conveyor_granulates._run
ConveyorGranulatesRun ==
    /\ err = "none"
    /\ feed' = copy_like(ss102)
    /\ last' = "Conveyor_granulates._run"
    /\ UNCHANGED <<conveyorVars, M201, makeup_solvent, recycled_solvent, dissolution,
                   undissolved, psaVars, hydrogen_recovered, mixerVars, elecVars,
                   reactorVars, err>>

\* _design of either conveyor for a density: the exception it ends with and the
\* record it leaves.  The quotient of the third line is formed before the guard.
\* With no density it raises TypeError.  With density zero it raises
\* ZeroDivisionError where the mass flow is a Python float, and gives an infinite
\* volumetric flow, after which the guard raises, where it is a numpy float.
DesignOutcomes(design, density) ==
    IF IsNone(density)
    THEN {[err |-> "TypeError",
           design |-> [design EXCEPT !.density = density, !.volumetric_flow = "unset"]]}
    ELSE IF density.num = 0
    THEN {[err |-> "ZeroDivisionError",
           design |-> [design EXCEPT !.density = density, !.volumetric_flow = "unset"]],
          [err |-> "ValueError: Density is not defined",
           design |-> [design EXCEPT !.density = density, !.volumetric_flow = "inf"]]}
    ELSE {[err |-> "none",
           design |-> [density |-> density, volumetric_flow |-> "finite",
                       design_results |-> ConveyorKeys, power_utility |-> TRUE]]}

\* Conveyor._design
ConveyorDesign ==
    /\ err = "none"
    /\ \E density \in DensityValues : \E o \in DesignOutcomes(C101.design, density) :
          /\ C101' = [C101 EXCEPT !.design = o.design]
          /\ err' = o.err
    /\ last' = "Conveyor._design"
    /\ UNCHANGED <<C102, feedstock, ss101, ss102, tankVars, psaVars, hydrogen_recovered,
                   mixerVars, elecVars, reactorVars>>

\* Conveyor_granulates._design
ConveyorGranulatesDesign ==
    /\ err = "none"
    /\ \E density \in DensityValues : \E o \in DesignOutcomes(C102.design, density) :
          /\ C102' = [C102 EXCEPT !.design = o.design]
          /\ err' = o.err
    /\ last' = "Conveyor_granulates._design"
    /\ UNCHANGED <<C101, feedstock, ss101, ss102, tankVars, psaVars, hydrogen_recovered,
                   mixerVars, elecVars, reactorVars>>

set_Feedstock_purity ==
    /\ err = "none"
    /\ \E i \in PurityValues : C101' = [C101 EXCEPT !.purity_factor = i]
    /\ last' = "set_Feedstock_purity"
    /\ UNCHANGED <<C102, feedstock, ss101, ss102, tankVars, psaVars, hydrogen_recovered,
                   mixerVars, elecVars, reactorVars, err>>

\* the first three units of sys1, in the order of its path
feed_line == SubSeq(sys1_path, 1, 3)

\* the unit at the current place of the feed line runs
FeedLineStep ==
    /\ pos <= Len(feed_line)
    /\ \/ feed_line[pos] = "C101" /\ ConveyorRun
       \/ feed_line[pos] = "G101" /\ GrinderRun
       \/ feed_line[pos] = "C102" /\ ConveyorGranulatesRun
    /\ pos' = pos + 1
    /\ UNCHANGED <<pass, stamp, restVars>>

\* the feed line has run: the conveyors are designed
FeedLineDesign ==
    /\ pos = Len(feed_line) + 1
    /\ ConveyorDesign \/ ConveyorGranulatesDesign
    /\ UNCHANGED <<passVars, restVars>>

\* a parameter is set for the next simulation
FeedLineParameter ==
    /\ pos = Len(feed_line) + 1
    /\ set_Feedstock_purity
    /\ pos' = 1
    /\ UNCHANGED <<pass, stamp, restVars>>

NextConveyor == FeedLineStep \/ FeedLineDesign \/ FeedLineParameter

-----------------------------------------------------------------------------
(* Hydrocracking reactor: design *)

\* temperatures at which the mixer M501 delivers the hydrogen: of the makeup
\* supplier, of the PSA
HydrogenTValues == {29815, 32315}

\* and pressures: of a stream nobody has set, the reactor's own hydrogen_P,
\* 0.96 of the PSA's
HydrogenPValues == {101325, 1170000, 1440000}

\* inlet temperatures a reactor may be built with: none, zero, that of HX301
HCinTArguments == {None, R(0), R(57315)}

\* the compressor, the heat exchangers and their streams as the constructor
\* creates them
InitAux ==
    /\ IC = [P |-> None, simulated |-> FALSE]
    /\ IC_in = EmptyStream
    /\ IC_out = EmptyStream
    /\ hx_H2_in = EmptyStream
    /\ hx_H2_out = EmptyStream
    /\ hx_oil_in = EmptyStream
    /\ hx_oil_out = EmptyStream
    /\ mixed_in = [imass |-> RNoFlow, T |-> 29815, P |-> 101325]
    /\ inferred = None

\* line 221 with a strict comparison
BypassesAbove(P, hydrogen_P) == P > hydrogen_P

\* line 221: no compression is needed
Bypasses(P, hydrogen_P) == P >= hydrogen_P

\* IC.simulate(): the isothermal compressor copies its inlet to its outlet at
\* its own pressure and the inlet's temperature
Compressed(inlet, P) == [copy_like(inlet) EXCEPT !.P = P]

\* line 238 with a test that never finds a temperature
UnsetAlways(T) == TRUE

\* line 238: 'not self.HCin_T' holds of None and of zero
Unset(T) == IsNone(T) \/ T.num = 0

\* lines 239 and 247 left out
NotHeated(s, T) == s

\* lines 239 and 247
HeatedTo(s, T) == [s EXCEPT !.T = ToInt(T)]

\* the temperatures of the inlets of R301 that carry flow
InletTemperatures ==
    {i.T : i \in {j \in {[T |-> heavy_oil.T, P |-> heavy_oil.P, empty |-> isempty(heavy_oil)],
                         [T |-> s_out.T, P |-> s_out.P, empty |-> isempty(s_out)],
                         [T |-> catalyst_in.T, P |-> catalyst_in.P,
                          empty |-> \A c \in IDs : catalyst_in.imass[c].num = 0]} :
                    ~j.empty}}

\* line 237: mix_from gives _mixed_in the sum of the inlets; its temperature
\* comes from the energy balance and is left to any value found among the
\* inlets that carry flow
MixedTemperatures == IF InletTemperatures = {} THEN {mixed_in.T} ELSE InletTemperatures

\* lines 253-256: the quotient is 0/0 when neither inlet has a volume, which
\* raises for Python floats and gives nan for numpy floats
VoidFractionOutcomes ==
    IF isempty(heavy_oil) /\ isempty(s_out) THEN {"ZeroDivisionError", "none"} ELSE {"none"}

\* Hydrocracking_reactor._design, up to the vessel sizing of the library
ReactorDesign ==
    /\ err = "none"
    /\ LET in0  == [copy_like(s_out) EXCEPT !.phase = "g"]
           skip == Bypasses(in0.P, R301.hydrogen_P)
           out0 == IF skip THEN copy_like(in0) ELSE Compressed(in0, R301.hydrogen_P)
       IN  \E Tm \in MixedTemperatures :
              LET T1 == IF Unset(R301.HCin_T) THEN R(Tm) ELSE R301.HCin_T
              IN  /\ IC_in' = in0
                  /\ IC_out' = out0
                  /\ IC' = IF skip THEN [IC EXCEPT !.simulated = FALSE]
                           ELSE [P |-> R(R301.hydrogen_P), simulated |-> TRUE]
                  /\ mixed_in' = [mixed_in EXCEPT
                                     !.imass = MixedIn(heavy_oil, s_out, catalyst_in),
                                     !.T = Tm]
                  /\ hx_H2_in' = [copy_like(s_out) EXCEPT !.phase = "g", !.P = out0.P]
                  /\ hx_H2_out' = [HeatedTo(copy_like(s_out), T1) EXCEPT
                                      !.phase = "g", !.P = out0.P]
                  /\ hx_oil_in' = [copy_like(heavy_oil) EXCEPT !.P = heavy_oil.P]
                  /\ hx_oil_out' = [HeatedTo(copy_like(heavy_oil), T1) EXCEPT
                                       !.P = heavy_oil.P]
                  /\ inferred' = IF IsNone(inferred) /\ Unset(R301.HCin_T) THEN R(Tm)
                                 ELSE inferred
                  /\ R301' = [R301 EXCEPT !.HCin_T = T1,
                                          !.P = R(Min({out0.P, heavy_oil.P}))]
    /\ \E e \in VoidFractionOutcomes : err' = e
    /\ last' = "Hydrocracking_reactor._design"
    /\ UNCHANGED <<heavy_oil, catalyst_in, hc_out, catalyst_out, hc_reacting, mixerVars,
                   hydrogen_recovered, tankVars, psaVars, elecVars, conveyorVars>>

\* the mixer M501 delivers the hydrogen at its temperature and pressure
HydrogenInletWrite ==
    /\ err = "none"
    /\ \E T \in HydrogenTValues, P \in HydrogenPValues :
          s_out' = [s_out EXCEPT !.T = T, !.P = P, !.phase = "g"]
    /\ last' = "hydrogen"
    /\ UNCHANGED <<makeup_hydrogen, extra_ins, B, reactorVars, hydrogen_recovered,
                   tankVars, psaVars, elecVars, conveyorVars, err>>

\* the units that write the inlets of R301, in the order they run in a pass
reactor_line == <<"HX301", "R301", "M501">>

\* the unit at the current place of the reactor line runs
ReactorLineStep ==
    /\ pos <= Len(reactor_line)
    /\ \/ reactor_line[pos] = "HX301" /\ HeavyOilWrite
       \/ reactor_line[pos] = "R301" /\ ReactorRun
       \/ reactor_line[pos] = "M501" /\ HydrogenInletWrite
    /\ pos' = pos + 1
    /\ UNCHANGED <<pass, stamp, restVars>>

\* the runs are over: the reactor is designed
ReactorLineDesign ==
    /\ pos = Len(reactor_line) + 1
    /\ ReactorDesign
    /\ pos' = pos + 1
    /\ UNCHANGED <<pass, stamp, rigorous, again, lifeVars>>

\* the flowsheet is simulated again
ReactorLineAgain ==
    /\ err = "none"
    /\ pos = Len(reactor_line) + 2
    /\ pos' = 1
    /\ last' = "simulate"
    /\ UNCHANGED <<tankVars, psaVars, hydrogen_recovered, mixerVars, elecVars,
                   reactorVars, conveyorVars, pass, stamp, restVars, err>>

NextDesign == ReactorLineStep \/ ReactorLineDesign \/ ReactorLineAgain

-----------------------------------------------------------------------------
(* Convergence passes of sys2 *)

\* a quantity nobody has resolved yet
Never == [pass |-> 0, pos |-> 0, by |-> "nobody"]

InitPass ==
    /\ pos = 1
    /\ pass = 1
    /\ stamp = [demand |-> Never, makeup |-> [pass |-> 0, pos |-> 0, demand |-> Never]]

\* units of the library on the path of sys2 that touch no stream of the hydrogen loop
LibraryUnits == {"HX402", "S401", "IC402", "HX403", "HX404", "ST402"}

LibraryRun(u) ==
    /\ err = "none"
    /\ last' = u
    /\ UNCHANGED <<tankVars, psaVars, hydrogen_recovered, mixerVars, elecVars,
                   reactorVars, conveyorVars, err>>

\* the record of who resolved what, after unit u has run
Stamped(u) ==
    IF u = "sys1"
    THEN [stamp EXCEPT !.demand = [pass |-> pass, pos |-> pos, by |-> "R301"]]
    ELSE IF u = "M501"
    THEN [stamp EXCEPT !.makeup = [pass |-> pass, pos |-> pos, demand |-> stamp.demand]]
    ELSE stamp

\* the unit at the current place of sys2 runs.  sys1 holds R301, which leaves
\* its demand on the mixer's outlet; IC401 delivers the PSA feed; M501 has
\* two inlets here.
OnSiteStep ==
    /\ pos <= Len(sys2_path)
    /\ LET u == sys2_path[pos]
       IN  /\ \/ u = "sys1" /\ (\E i \in DOMAIN sys1_path : sys1_path[i] = "R301")
                            /\ DemandWrite
              \/ u = "IC401" /\ PSAFeedWrite
              \/ u = "PSA401" /\ PSARun
              \/ u = "M501" /\ MixerRunTwo
              \/ u = "PEM501" /\ ElectrolysisRun
              \/ u \in LibraryUnits /\ LibraryRun(u)
           /\ stamp' = Stamped(u)
    /\ pos' = pos + 1
    /\ UNCHANGED <<pass, restVars>>

\* the pass is over and the recycle has not converged: the solver puts its
\* next guess on the tear stream, the outlet of M501, and another pass begins
NextPass ==
    /\ err = "none"
    /\ pos = Len(sys2_path) + 1
    /\ pass < MaxPasses
    /\ \E g \in DemandValues : s_out' = SetMass(s_out, "H2", g)
    /\ stamp' = [stamp EXCEPT !.demand = [pass |-> pass, pos |-> pos, by |-> "solver"]]
    /\ pass' = pass + 1
    /\ pos' = 1
    /\ last' = "pass"
    /\ UNCHANGED <<makeup_hydrogen, extra_ins, B, tankVars, psaVars, hydrogen_recovered,
                   elecVars, reactorVars, conveyorVars, restVars, err>>

NextOnSite == OnSiteStep \/ NextPass

-----------------------------------------------------------------------------
(* system_TEA: the flowsheet is built and simulated *)

\* arguments hydrogen_handling that system_TEA may be called with
HandlingArguments == {"purchase and storage", "on-site production", "storage", "none"}

\* lines 194-214, with every argument taken for a scenario
ScenariosAny == HandlingArguments

\* lines 194 and 205: the scenarios system_TEA knows
Scenarios == {"purchase and storage", "on-site production"}

\* line 202: the units of sys2 in the purchase scenario
sys2_path_purchase ==
    <<"sys1", "HX402", "IC401", "PSA401", "S401", "IC402", "HX403", "HX404",
      "ST402", "ST501", "M501">>

\* lines 202 and 211: the path sys2 is built with
PathOf(h) == IF h = "purchase and storage" THEN sys2_path_purchase ELSE sys2_path

UnitsOf(path) == {path[i] : i \in DOMAIN path} \ {"sys1"}

Sys1Units == UnitsOf(sys1_path)

Units == Sys1Units \cup UnitsOf(sys2_path) \cup UnitsOf(sys2_path_purchase)

NoRuns == [u \in Units |-> 0]

\* system_TEA is called with h and has built the units: no unit has run
InitLifeWith(h) ==
    /\ hydrogen_handling = h
    /\ phase = "called"
    /\ pos1 = 1
    /\ pass1 = 1
    /\ runs = NoRuns
    /\ tear = [sys1 |-> EmptyStream.imass, sys2 |-> EmptyStream.imass]
    /\ summary = <<>>

InitLife == InitLifeWith("on-site production")

\* lines 194-214: the scenario is looked up; for a scenario sys1 and sys2 are
\* built, for anything else line 214 raises
Build ==
    /\ phase = "called"
    /\ IF hydrogen_handling \in Scenarios
       THEN phase' = "converge" /\ err' = err
       ELSE phase' = "raised" /\ err' = "RuntimeError: hydrogen_handling"
    /\ last' = "system_TEA"
    /\ UNCHANGED <<tankVars, psaVars, hydrogen_recovered, mixerVars, elecVars, reactorVars,
                   conveyorVars, passVars, auxVars, rigorous, again, hydrogen_handling,
                   pos1, pass1, runs, tear, summary>>

\* units of the library on the path of sys1 that touch no stream modelled here
Sys1LibraryUnits ==
    {"P301", "HX301", "F401", "F402", "M401", "P401", "D401", "HX401", "ST401",
     "HX201", "HX202"}

\* line 143: the storage tank ST201 copies the solvent feed, which carries
\* nothing (line 117), to the makeup inlet of M201
SolventStorageRun ==
    /\ err = "none"
    /\ makeup_solvent' = copy_like([EmptyStream EXCEPT !.T = 29800])
    /\ last' = "ST201"
    /\ UNCHANGED <<elecVars, reactorVars, conveyorVars, M201, feed, recycled_solvent,
                   dissolution, undissolved, psaVars, hydrogen_recovered, mixerVars, err>>

\* line 198: the storage tank ST501 copies the hydrogen feed, which carries
\* nothing (line 118), to the first inlet of M501
HydrogenStorageRun ==
    /\ err = "none"
    /\ makeup_hydrogen' = copy_like([EmptyStream EXCEPT !.phase = "g", !.P = 1379000])
    /\ last' = "ST501"
    /\ UNCHANGED <<PEM501, water_required, oxygen, extra_ins, s_out, B, hydrogen_recovered,
                   tankVars, psaVars, reactorVars, conveyorVars, err>>

\* the run of the unit u.  R301 leaves its demand on the outlet of M501, P201
\* delivers the solvent recycle, IC401 the feed of the PSA, here hydrogen alone.
UnitRuns(u) ==
    \/ u = "C101" /\ ConveyorRun
    \/ u = "G101" /\ GrinderRun
    \/ u = "C102" /\ ConveyorGranulatesRun
    \/ u = "ST201" /\ SolventStorageRun
    \/ u = "M201" /\ TankRun
    \/ u = "R301" /\ DemandWrite
    \/ u = "P201" /\ TankRecycleWrite
    \/ u = "IC401" /\ PSAFeedWrite /\ \A c \in LightIDs : gases_in'.imass[c] = 0
    \/ u = "PSA401" /\ PSARun
    \/ u = "ST501" /\ HydrogenStorageRun
    \/ u = "M501" /\ MixerRunTwo
    \/ u = "PEM501" /\ ElectrolysisRun
    \/ u \in Sys1LibraryUnits \cup LibraryUnits /\ LibraryRun(u)

\* the pass of sys2 is at sys1, the first element of its path
InSys1 ==
    /\ pos <= Len(PathOf(hydrogen_handling))
    /\ PathOf(hydrogen_handling)[pos] = "sys1"

\* the recycle test of a system that takes every pass for the last
ConvergedAlways(stream, guess) == TRUE

\* the recycle of a system has converged when the pass left on its tear
\* stream the flows it began with
Converged(stream, guess) == stream.imass = guess

\* a unit of sys1 runs
Sys1Step ==
    /\ phase = "converge"
    /\ InSys1
    /\ pos1 <= Len(sys1_path)
    /\ LET u == sys1_path[pos1]
       IN  /\ UnitRuns(u)
           /\ runs' = [runs EXCEPT ![u] = @ + 1]
    /\ phase' = IF err' = "none" THEN phase ELSE "raised"
    /\ pos1' = pos1 + 1
    /\ UNCHANGED <<passVars, auxVars, rigorous, again, hydrogen_handling, pass1, tear,
                   summary>>

\* a pass of sys1 is over and its recycle, the outlet of P201, has not
\* converged: another pass begins, with what this one left there as the guess
Sys1Pass ==
    /\ phase = "converge"
    /\ err = "none"
    /\ InSys1
    /\ pos1 = Len(sys1_path) + 1
    /\ ~Converged(recycled_solvent, tear.sys1)
    /\ pass1 < MaxPasses
    /\ tear' = [tear EXCEPT !.sys1 = recycled_solvent.imass]
    /\ runs' = [u \in Units |-> IF u \in Sys1Units THEN 0 ELSE runs[u]]
    /\ pass1' = pass1 + 1
    /\ pos1' = 1
    /\ last' = "pass of sys1"
    /\ UNCHANGED <<tankVars, psaVars,
                   hydrogen_recovered, mixerVars, elecVars, reactorVars, conveyorVars,
                   passVars, auxVars, rigorous, again, hydrogen_handling, phase, summary,
                   err>>

\* sys1 has converged: the pass of sys2 goes on with the unit after it
Sys1Converged ==
    /\ phase = "converge"
    /\ err = "none"
    /\ InSys1
    /\ pos1 = Len(sys1_path) + 1
    /\ Converged(recycled_solvent, tear.sys1)
    /\ pos' = pos + 1
    /\ pass1' = 0
    /\ last' = "sys1"
    /\ UNCHANGED <<tankVars, psaVars, hydrogen_recovered, mixerVars, elecVars, reactorVars,
                   conveyorVars, pass, stamp, auxVars, rigorous, again, hydrogen_handling,
                   phase, pos1, runs, tear, summary, err>>

\* a unit of sys2 runs
Sys2Step ==
    /\ phase = "converge"
    /\ pos <= Len(PathOf(hydrogen_handling))
    /\ PathOf(hydrogen_handling)[pos] # "sys1"
    /\ LET u == PathOf(hydrogen_handling)[pos]
       IN  /\ UnitRuns(u)
           /\ runs' = [runs EXCEPT ![u] = @ + 1]
    /\ phase' = IF err' = "none" THEN phase ELSE "raised"
    /\ pos' = pos + 1
    /\ UNCHANGED <<pass, stamp, auxVars, rigorous, again, hydrogen_handling, pos1, pass1,
                   tear, summary>>

\* a pass of sys2 is over and its recycle, the outlet of M501, has not
\* converged: another pass begins, with what this one left there as the guess,
\* and sys1 is converged anew in it
Sys2Pass ==
    /\ phase = "converge"
    /\ err = "none"
    /\ pos = Len(PathOf(hydrogen_handling)) + 1
    /\ ~Converged(s_out, tear.sys2)
    /\ pass < MaxPasses
    /\ tear' = [sys1 |-> recycled_solvent.imass, sys2 |-> s_out.imass]
    /\ runs' = NoRuns
    /\ pass' = pass + 1
    /\ pos' = 1
    /\ pass1' = 1
    /\ pos1' = 1
    /\ last' = "pass of sys2"
    /\ UNCHANGED <<mixerVars, tankVars, psaVars, hydrogen_recovered,
                   elecVars, reactorVars, conveyorVars, stamp, auxVars, rigorous, again,
                   hydrogen_handling, phase, summary, err>>

\* a pass of sys1 or of sys2 is over, the recycle has not converged and the
\* library gives up: simulate raises
GiveUp ==
    /\ phase = "converge"
    /\ err = "none"
    /\ \/ /\ InSys1
          /\ pos1 = Len(sys1_path) + 1
          /\ ~Converged(recycled_solvent, tear.sys1)
       \/ /\ pos = Len(PathOf(hydrogen_handling)) + 1
          /\ ~Converged(s_out, tear.sys2)
    /\ phase' = "raised"
    /\ err' = "RuntimeError: could not converge"
    /\ last' = "simulate"
    /\ UNCHANGED <<tankVars, psaVars, hydrogen_recovered, mixerVars, elecVars, reactorVars,
                   conveyorVars, passVars, auxVars, rigorous, again, hydrogen_handling,
                   pos1, pass1, runs, tear, summary>>

\* sys2 has converged: the units are summarised, from the first of the path
Sys2Converged ==
    /\ phase = "converge"
    /\ err = "none"
    /\ pos = Len(PathOf(hydrogen_handling)) + 1
    /\ Converged(s_out, tear.sys2)
    /\ phase' = "summary"
    /\ pos' = 1
    /\ pos1' = 1
    /\ last' = "sys2"
    /\ UNCHANGED <<tankVars, psaVars, hydrogen_recovered, mixerVars, elecVars, reactorVars,
                   conveyorVars, pass, stamp, auxVars, rigorous, again, hydrogen_handling,
                   pass1, runs, tear, summary, err>>

\* _design of a unit that writes nothing modelled here
OtherDesign(u) ==
    /\ err = "none"
    /\ last' = u
    /\ UNCHANGED <<tankVars, psaVars, hydrogen_recovered, mixerVars, elecVars, reactorVars,
                   conveyorVars, err>>

\* _design of the unit u
UnitDesigns(u) ==
    \/ u = "C101" /\ ConveyorDesign /\ UNCHANGED auxVars
    \/ u = "C102" /\ ConveyorGranulatesDesign /\ UNCHANGED auxVars
    \/ u = "R301" /\ ReactorDesign
    \/ u \notin {"C101", "C102", "R301"} /\ OtherDesign(u) /\ UNCHANGED auxVars

\* the steps a unit's summary has executed: its design, and its cost unless
\* the design raised
Summarised(u, e) ==
    IF e = "none" THEN <<<<u, "design">>, <<u, "cost">>>> ELSE <<<<u, "design">>>>

\* the summary of the next unit: of sys1 first, in the order of its path,
\* then of the units of sys2
SummaryStep ==
    /\ phase = "summary"
    /\ pos <= Len(PathOf(hydrogen_handling))
    /\ LET inside == PathOf(hydrogen_handling)[pos] = "sys1"
           u      == IF inside THEN sys1_path[pos1] ELSE PathOf(hydrogen_handling)[pos]
       IN  /\ UnitDesigns(u)
           /\ summary' = summary \o Summarised(u, err')
           /\ IF inside /\ pos1 < Len(sys1_path)
              THEN pos1' = pos1 + 1 /\ pos' = pos
              ELSE pos1' = pos1 /\ pos' = pos + 1
    /\ phase' = IF err' = "none" THEN phase ELSE "raised"
    /\ UNCHANGED <<pass, stamp, rigorous, again, hydrogen_handling, pass1, runs, tear>>

\* sys2.simulate() of line 216 returns
Return ==
    /\ phase = "summary"
    /\ err = "none"
    /\ pos = Len(PathOf(hydrogen_handling)) + 1
    /\ phase' = "returned"
    /\ last' = "return"
    /\ UNCHANGED <<tankVars, psaVars, hydrogen_recovered, mixerVars, elecVars, reactorVars,
                   conveyorVars, passVars, auxVars, rigorous, again, hydrogen_handling,
                   pos1, pass1, runs, tear, summary, err>>

NextSimulate ==
    \/ Build
    \/ Sys1Step
    \/ Sys1Pass
    \/ Sys1Converged
    \/ Sys2Step
    \/ Sys2Pass
    \/ Sys2Converged
    \/ GiveUp
    \/ SummaryStep
    \/ Return

-----------------------------------------------------------------------------
(* Construction *)

\* the units as the flowsheet builds them, but for the four that follow
InitOthers ==
    /\ InitTank
    /\ InitPSA
    /\ InitElectrolysis
    /\ InitAux
    /\ InitPass
    /\ err = "none"
    /\ last = "init"

\* the flowsheet builds M501 with two inlets
Init ==
    /\ InitOthers
    /\ InitLife
    /\ InitMixer
    /\ rigorous = FALSE
    /\ extra_ins = <<>>
    /\ InitReactor
    /\ InitConveyors

\* a mixer built with any number of inlets from two on
InitAnyMixer ==
    /\ InitOthers
    /\ InitLife
    /\ InitMixer
    /\ rigorous = FALSE
    /\ \E n \in 2..MaxIns : extra_ins = [i \in 1..(n - 2) |-> EmptyStream]
    /\ InitReactor
    /\ InitConveyors

\* the mixer of the flowsheet, built with or without the equilibrium
InitAnySplit ==
    /\ InitOthers
    /\ InitLife
    /\ InitMixer
    /\ rigorous \in BOOLEAN
    /\ extra_ins = <<>>
    /\ InitReactor
    /\ InitConveyors

\* a reactor built for any catalyst component
InitAnyReactor ==
    /\ InitOthers
    /\ InitLife
    /\ InitMixer
    /\ rigorous = FALSE
    /\ extra_ins = <<>>
    /\ \E catalyst_ID \in CatalystIDs : InitReactorWith(catalyst_ID)
    /\ InitConveyors

\* a conveyor built with any feed and any purity argument
InitAnyConveyor ==
    /\ InitOthers
    /\ InitLife
    /\ InitMixer
    /\ rigorous = FALSE
    /\ extra_ins = <<>>
    /\ InitReactor
    /\ \E feedPW \in FeedPWValues, purity_factor \in PurityArguments :
          InitConveyorWith(feedPW, purity_factor)

\* a reactor built with any inlet temperature
InitAnyDesign ==
    /\ InitOthers
    /\ InitLife
    /\ InitMixer
    /\ rigorous = FALSE
    /\ extra_ins = <<>>
    /\ \E HCin_T \in HCinTArguments :
          R301 = R301AsBuilt("catalyst", HCin_T) /\ InitReactorStreams
    /\ InitConveyors

\* system_TEA called with any argument
InitAnySimulate ==
    /\ InitOthers
    /\ \E h \in HandlingArguments : InitLifeWith(h)
    /\ InitMixer
    /\ rigorous = FALSE
    /\ extra_ins = <<>>
    /\ InitReactor
    /\ InitConveyors

SpecTank == Init /\ [][NextTank]_vars

SpecPSA == Init /\ [][NextPSA]_vars

SpecMixer == InitAnyMixer /\ [][NextMixer]_vars

SpecSplit == InitAnySplit /\ [][NextSplit]_vars

SpecElectrolysis == Init /\ [][NextElectrolysis]_vars

SpecReactor == InitAnyReactor /\ [][NextReactor]_vars

SpecConveyor == InitAnyConveyor /\ [][NextConveyor]_vars

SpecOnSite == Init /\ [][NextOnSite]_vars

SpecDesign == InitAnyDesign /\ [][NextDesign]_vars

SpecSimulate == InitAnySimulate /\ [][NextSimulate]_vars

Next ==
    \/ NextTank
    \/ NextPSA
    \/ NextMixer
    \/ NextSplit
    \/ NextElectrolysis
    \/ NextReactor
    \/ NextConveyor
    \/ NextOnSite
    \/ NextDesign
    \/ NextSimulate

Spec == Init /\ [][Next]_vars

-----------------------------------------------------------------------------
(* Dissolution tank: properties *)

TankRan == last = "Dissolution_tank._run"

\* C1: after every run of Dissolution_tank._run, whatever runs came before on
\* the same output streams and whichever branch is taken, the LDPE of the
\* dissolved output plus the LDPE of the undissolved output is the LDPE of
\* the solid feed of that run.
C1_SoluteConserved ==
    TankRan =>
        dissolution.imass["LDPE"] + undissolved.imass["LDPE"] = feed.imass["LDPE"]

\* C2: with S the LDPE fed and M = max_solubility x (makeup + recycled
\* solvent), after a run with S <= M the dissolved output holds S and the
\* undissolved output holds no LDPE; after a run with S > M the dissolved
\* output holds M and the undissolved output holds S - M; whatever branch
\* earlier runs took.
C2_BranchSelection ==
    TankRan =>
        LET S == feed.imass["LDPE"]
            solvent == makeup_solvent.imass["C12H26"] + recycled_solvent.imass["C12H26"]
            M == (M201.max_solubility.num * (solvent \div M201.max_solubility.den))
        IN  /\ S <= M => /\ dissolution.imass["LDPE"] = S
                         /\ undissolved.imass["LDPE"] = 0
            /\ S > M  => /\ dissolution.imass["LDPE"] = M
                         /\ undissolved.imass["LDPE"] = S - M

\* C3: a run that finds the recycled solvent above the required total solvent
\* signals a NegativeFlowError, writes no makeup flow and produces no outputs.
C3_OversupplyRaises ==
    [][(/\ last' = "Dissolution_tank._run"
        /\ recycled_solvent.imass["C12H26"] * M201.LDPE_concentration.num
              > M201.feedPW * M201.LDPE_concentration.den)
       => (/\ err' = "NegativeFlowError"
           /\ UNCHANGED <<makeup_solvent, dissolution, undissolved>>)]_vars

\* C4: after every run the makeup is the required total solvent (feedPW /
\* LDPE_concentration) less the recycle, the dissolved output carries makeup +
\* recycle, which is the required total (104167 kg/h for 10416.7 kg/h at 0.1),
\* and the undissolved output carries no solvent; in both branches.
C4_SolventBalance ==
    TankRan =>
        LET c == M201.LDPE_concentration
            required == (M201.feedPW * c.den) \div c.num
            makeup == makeup_solvent.imass["C12H26"]
            recycled == recycled_solvent.imass["C12H26"]
        IN  /\ required * c.num = M201.feedPW * c.den
            /\ makeup = required - recycled
            /\ dissolution.imass["C12H26"] = makeup + recycled
            /\ dissolution.imass["C12H26"] = required
            /\ (M201.feedPW = 10416700 /\ c = Frac(1, 10))
                  => dissolution.imass["C12H26"] = 104167000
            /\ undissolved.imass["C12H26"] = 0

\* a saturation-limited run at the baseline concentration, with solvent recycled
C4_Witness ==
    /\ TankRan
    /\ M201.LDPE_concentration = Frac(1, 10)
    /\ recycled_solvent.imass["C12H26"] > 0
    /\ makeup_solvent.imass["C12H26"] > 0
    /\ undissolved.imass["LDPE"] > 0
    /\ dissolution.imass["LDPE"] < feed.imass["LDPE"]
    /\ dissolution.imass["C12H26"] = 104167000

-----------------------------------------------------------------------------
(* Dissolution tank: the recycle *)

\* recycle flows from nothing up to the solvent the tank requires
RecycleWithinNeed(r) == 0 <= r /\ r <= solvent_needed(M201)

\* C29: two runs of Dissolution_tank._run that differ only in the recycled
\* solvent flow, both between 0 and feedPW / LDPE_concentration, leave the
\* same component flows in the dissolved and the undissolved outlet: what a
\* run writes for the recycle it finds is what it would have written for any
\* other recycle in that range.
C29_RecycleInsensitive ==
    [][(last' = "Dissolution_tank._run"
        /\ RecycleWithinNeed(recycled_solvent.imass["C12H26"])) =>
          \A r \in RecycleValues :
              RecycleWithinNeed(r) =>
                  LET other == TankWrites(SetMass(recycled_solvent, "C12H26", r))
                  IN  /\ other.dissolution.imass = dissolution'.imass
                      /\ other.undissolved.imass = undissolved'.imass]_vars

\* a run with 78125.25 kg/h recycled, of 104167 kg/h required, that dissolved
\* all the LDPE of the conveyor
C29_Witness ==
    /\ TankRan
    /\ recycled_solvent.imass["C12H26"] = 78125250
    /\ makeup_solvent.imass["C12H26"] = 26041750
    /\ dissolution.imass["C12H26"] = 104167000
    /\ dissolution.imass["LDPE"] = 9895865
    /\ undissolved.imass["impurities"] = 520835

\* C24: in every state that any number of runs of the tank reach, from empty
\* streams and any non-negative recycle guess, every component flow of the
\* streams that Dissolution_tank._run and Mixer._run write is at least 0.
C24_FlowsNonNegative ==
    \A i \in IDs :
        /\ makeup_solvent.imass[i] >= 0
        /\ dissolution.imass[i] >= 0
        /\ undissolved.imass[i] >= 0
        /\ makeup_hydrogen.imass[i] >= 0
        /\ s_out.imass[i] >= 0

-----------------------------------------------------------------------------
(* Pressure swing adsorption: properties *)

PSARan == last = "PSA._run"

\* C5: PSA._run leaves the feed stream as it was, puts efficiency x feed
\* hydrogen in the recovery output and (1 - efficiency) x feed hydrogen in the
\* effluent, and the two sum to the feed hydrogen.
C5_TargetSplit ==
    [][last' = "PSA._run" =>
        LET e == PSA401.efficiency
            h == gases_in.imass["H2"]
        IN  /\ gases_in' = gases_in
            /\ hydrogen_recovered'.imass["H2"] * e.den = e.num * h
            /\ effluent'.imass["H2"] * e.den = (e.den - e.num) * h
            /\ hydrogen_recovered'.imass["H2"] + effluent'.imass["H2"] = h]_vars

C5_Witness ==
    /\ PSARan
    /\ gases_in.imass["H2"] > 0
    /\ hydrogen_recovered.imass["H2"] > effluent.imass["H2"]
    /\ effluent.imass["H2"] > 0

\* C6: after every PSA._run, in any sequence of runs with changing feeds, the
\* effluent holds each non-hydrogen component at its flow in the feed of that
\* run and the recovery output holds none of any non-hydrogen component.
C6_NonTargetRouting ==
    PSARan =>
        \A c \in IDs \ {"H2"} :
            /\ effluent.imass[c] = gases_in.imass[c]
            /\ hydrogen_recovered.imass[c] = 0

\* a run on a feed with propane and without dodecane
C6_Witness ==
    /\ PSARan
    /\ gases_in.imass["H2"] > 0
    /\ gases_in.imass["C3H8"] > 0
    /\ gases_in.imass["C12H26"] = 0
    /\ effluent.imass["C3H8"] = gases_in.imass["C3H8"]

-----------------------------------------------------------------------------
(* Hydrogen mixer: properties *)

MixerRan == last = "Mixer._run"

\* C7: a completed Mixer._run writes (outlet hydrogen before the run) -
\* (recovered hydrogen) to the makeup inlet, and the outlet hydrogen it blends
\* is that makeup value of the same run plus the recovered hydrogen.
C7_FillTheGap ==
    [][(last' = "Mixer._run" /\ err' = "none") =>
        /\ makeup_hydrogen'.imass["H2"]
              = s_out.imass["H2"] - hydrogen_recovered.imass["H2"]
        /\ s_out'.imass["H2"]
              = makeup_hydrogen'.imass["H2"] + hydrogen_recovered'.imass["H2"]]_vars

\* a run whose makeup differs from the demand and from the recovered flow
C7_Witness ==
    /\ MixerRan
    /\ err = "none"
    /\ makeup_hydrogen.imass["H2"] > 0
    /\ hydrogen_recovered.imass["H2"] > 0
    /\ s_out.imass["H2"] > hydrogen_recovered.imass["H2"]

\* C8: a run of the two-inlet mixer whose outlet demand O is below the
\* recovered inlet K raises a NegativeFlowError and writes nothing to the
\* makeup inlet.
C8_NegativeMakeupRaises ==
    [][(/\ last' = "Mixer._run"
        /\ Len(MixerIns) = 2
        /\ s_out.imass["H2"] < hydrogen_recovered.imass["H2"])
       => (/\ err' = "NegativeFlowError"
           /\ makeup_hydrogen' = makeup_hydrogen)]_vars

\* C9: after a completed Mixer._run the outlet holds, for every component, the
\* sum of that component over all inlets as they stand after the makeup write.
C9_BlendConservesMass ==
    (MixerRan /\ err = "none") =>
        \A c \in IDs :
            s_out.imass[c] = SumFlow(MixerIns, c, Len(MixerIns))

\* a run that blends hydrogen of both inlets and water of the makeup inlet
C9_Witness ==
    /\ MixerRan
    /\ err = "none"
    /\ makeup_hydrogen.imass["H2"] > 0
    /\ hydrogen_recovered.imass["H2"] > 0
    /\ makeup_hydrogen.imass["H2O"] > 0
    /\ s_out.imass["H2O"] > 0

\* C10: for every number of inlets from two on, Mixer._run completes without
\* an exception and the outlet holds the blend of all the inlets.
C10_AnyNumberOfInlets ==
    MixerRan =>
        /\ err = "none"
        /\ \A c \in IDs : s_out.imass[c] = SumFlow(MixerIns, c, Len(MixerIns))

-----------------------------------------------------------------------------
(* Hydrogen mixer: split coefficient and repeated runs *)

\* C27: after Mixer._run, with V the vapor fraction of the outlet, the stored
\* coefficient B is 0 when V = 0, infinite when V = 1 and V / (1 - V) in
\* between; it is computed anew from the outlet at every run, so it is never
\* negative after a run, whatever _update_energy_variable made of it before.
C27_SplitCoefficient ==
    (MixerRan /\ err = "none") =>
        LET V == vapor_fraction(s_out)
        IN  /\ V.num = 0 => B.kind = "zero"
            /\ V.num = V.den => B.kind = "inf"
            /\ (0 < V.num /\ V.num < V.den) =>
                  /\ B.kind = "ratio"
                  /\ B.num * (V.den - V.num) = V.num * B.den
            /\ B.kind = "ratio" => B.num >= 0 /\ B.den > 0

\* a run of a rigorous mixer that left a quarter of the outlet as vapor
C27_Witness ==
    /\ MixerRan
    /\ err = "none"
    /\ rigorous
    /\ s_out.phase = "gl"
    /\ s_out.V = Frac(1, 4)
    /\ B = [kind |-> "ratio", num |-> 1, den |-> 3]
    /\ s_out.imass["H2"] > 0

\* C28: a completed Mixer._run that finds the recovered hydrogen K no larger
\* than the outlet hydrogen O leaves the outlet hydrogen at O; a second run
\* right after it, with nothing written in between, leaves the hydrogen of
\* the makeup inlet and the flows of the outlet as the first run left them.
C28_RunIdempotent ==
    [][(/\ last' = "Mixer._run"
        /\ err' = "none"
        /\ hydrogen_recovered.imass["H2"] <= s_out.imass["H2"]) =>
          /\ s_out'.imass["H2"] = s_out.imass["H2"]
          /\ again' =>
                /\ makeup_hydrogen'.imass["H2"] = makeup_hydrogen.imass["H2"]
                /\ s_out'.imass = s_out.imass]_vars

\* a second run in a row, for 14 kg/h demanded and 5.95 kg/h recovered
C28_Witness ==
    /\ MixerRan
    /\ err = "none"
    /\ again
    /\ s_out.imass["H2"] = 14000
    /\ hydrogen_recovered.imass["H2"] = 5950
    /\ makeup_hydrogen.imass["H2"] = 8050

-----------------------------------------------------------------------------
(* Electrolysis: claims *)

ElectrolysisRan == last = "Electrolysis._run"

\* C11: after Electrolysis._run, with D the flow of its hydrogen outlet (all
\* of it hydrogen), the water inlet holds D x 3.79 / 3.5 and the oxygen outlet
\* D x 7.94, whatever D was at earlier runs.
C11_BackSolve ==
    ElectrolysisRan =>
        LET D == F_mass(makeup_hydrogen)
        IN  /\ D = makeup_hydrogen.imass["H2"]
            /\ water_required.imass["H2O"] * 350 = D * 379
            /\ oxygen.imass["O2"] * 100 = D * 794

\* a run for 70 kg/h of hydrogen: 75.8 kg/h of water, 555.8 kg/h of oxygen
C11_Witness ==
    /\ ElectrolysisRan
    /\ makeup_hydrogen.imass["H2"] = 70000
    /\ water_required.imass["H2O"] = 75800
    /\ oxygen.imass["O2"] = 555800

\* C12: Electrolysis._run leaves every flow of its hydrogen outlet as it was;
\* it writes the water flow of its inlet, the oxygen flow of its co-product,
\* and the fixed phase, temperature and pressure of its ports.
C12_HydrogenOutputKept ==
    [][last' = "Electrolysis._run" =>
          /\ makeup_hydrogen'.imass = makeup_hydrogen.imass
          /\ makeup_hydrogen' = [makeup_hydrogen EXCEPT
                                    !.phase = "g", !.T = PEM501.T, !.P = PEM501.P]
          /\ \A c \in IDs \ {"H2O"} : water_required'.imass[c] = water_required.imass[c]
          /\ water_required'.phase = "l"
          /\ water_required'.T = water_required.T
          /\ water_required'.P = water_required.P
          /\ \A c \in IDs \ {"O2"} : oxygen'.imass[c] = oxygen.imass[c]
          /\ oxygen'.phase = "g"
          /\ oxygen'.T = PEM501.T
          /\ oxygen'.P = 101324
          /\ PEM501' = PEM501]_vars

\* a run that found 35 kg/h demanded and left it, at 80 C and 450 psi
C12_Witness ==
    /\ ElectrolysisRan
    /\ makeup_hydrogen.imass["H2"] = 35000
    /\ makeup_hydrogen.T = 35315
    /\ makeup_hydrogen.P = 3102642
    /\ water_required.imass["H2O"] = 37900

-----------------------------------------------------------------------------
(* Passes of sys2: claims *)

\* C13: in every pass of the on-site production flowsheet the reactor runs
\* before the mixer and the mixer before the electrolyser, so that when
\* Electrolysis._run has executed, the makeup it read was resolved by the
\* mixer earlier in the same pass, from a demand the reactor wrote earlier
\* still in that pass, and is that demand less the hydrogen recovered.
C13_DemandBeforeRun ==
    ElectrolysisRan =>
        /\ stamp.makeup.pass = pass
        /\ stamp.makeup.pos < pos - 1
        /\ stamp.makeup.demand.pass = pass
        /\ stamp.makeup.demand.by = "R301"
        /\ stamp.makeup.demand.pos < stamp.makeup.pos
        /\ makeup_hydrogen.imass["H2"]
              = s_out.imass["H2"] - hydrogen_recovered.imass["H2"]

\* the electrolyser has run in the second pass, for a makeup of that pass
C13_Witness ==
    /\ ElectrolysisRan
    /\ pass = 2
    /\ stamp.makeup.pass = 2
    /\ stamp.demand.by = "R301"
    /\ makeup_hydrogen.imass["H2"] > 0
    /\ water_required.imass["H2O"] * 350 = makeup_hydrogen.imass["H2"] * 379

-----------------------------------------------------------------------------
(* Hydrocracking reactor: claims *)

ReactorRan == last = "Hydrocracking_reactor._run"

\* the sum of three conversions
SumOfConversions(X) == RAdd(RAdd(X[1], X[2]), X[3])

\* C14: after every Hydrocracking_reactor._run the conversions of the three
\* reactions are Y, (1 - Y) x 0.17 and (1 - Y) x 0.83 for the yield Y the
\* reactor has then, also when Y was set after construction; and for every Y
\* from 0 to 1 in steps of 0.01 the three sum to exactly 1.
C14_ConversionsFollowYield ==
    /\ ReactorRan =>
          LET Y == R301.polycrude_yield
              X == R301.X
          IN  /\ X[1].num * Y.den = Y.num * X[1].den
              /\ X[2].num * (Y.den * 100) = (Y.den - Y.num) * 17 * X[2].den
              /\ X[3].num * (Y.den * 100) = (Y.den - Y.num) * 83 * X[3].den
              /\ SumOfConversions(X) = R(1)
    /\ \A k \in 0..100 : SumOfConversions(Conversions(Norm(k, 100))) = R(1)

\* a run after the yield was set to 0.84
C14_Witness ==
    /\ ReactorRan
    /\ R301.polycrude_yield = Frac(21, 25)
    /\ R301.X = <<Frac(21, 25), Frac(17, 625), Frac(83, 625)>>
    /\ heavy_oil.imass["LDPE"] > 0

\* C15: after _run the hydrogen inlet holds (sum over the reactions of
\* conversion x hydrogen per LDPE: 493/7, 2497/3 and 624 mol/mol) x LDPE
\* moles x 2 x hydrogen_excess; this is linear in the LDPE moles: twice the
\* LDPE asks twice the hydrogen, none asks none.
C15_HydrogenInlet ==
    ReactorRan =>
        LET Y     == R301.polycrude_yield
            E     == R301.hydrogen_excess
            n     == Norm(heavy_oil.imass["LDPE"], 35002)
            sigma == RAdd(RAdd(RMul(Y, Frac(493, 7)),
                               RMul(RMul(OneMinus(Y), Frac(17, 100)), Frac(2497, 3))),
                          RMul(RMul(OneMinus(Y), Frac(83, 100)), R(624)))
        IN  /\ R(s_out.imass["H2"]) = RMul(RMul(RMul(sigma, n), R(2)), E)
            /\ heavy_oil.imass["LDPE"] = 0 => s_out.imass["H2"] = 0
            /\ \A f \in HeavyOilValues :
                  HydrogenFed(R301, R301.X,
                              [imass |-> [f EXCEPT !["LDPE"] = 2 * f["LDPE"]]])
                     = RMul(R(2), HydrogenFed(R301, R301.X, [imass |-> f]))

\* 672 mol/h of LDPE at yield 0.91 and excess 7.5: 1244.25 kg/h of hydrogen
C15_Witness ==
    /\ ReactorRan
    /\ heavy_oil.imass["LDPE"] = 23521344
    /\ R301.polycrude_yield = Frac(91, 100)
    /\ R301.hydrogen_excess = Frac(15, 2)
    /\ s_out.imass["H2"] = 1244250

\* C16: the mixture _run hands to the reaction holds demand x
\* (hydrogen_excess - 1) of hydrogen, the stoichiometric amount being already
\* taken off the hydrogen fed; demand read as the hydrogen reacted of line
\* 194 or as the hydrogen fed of line 195.
C16_NetHydrogenAtReaction ==
    ReactorRan =>
        LET net == RSub(R301.hydrogen_excess, R(1))
        IN  \/ hc_reacting["H2"] = RMul(hydrogen_rxned(R301.X, heavy_oil), net)
            \/ hc_reacting["H2"] = RMul(HydrogenFed(R301, R301.X, heavy_oil), net)

\* C17: after every _run, whatever catalyst_ID the reactor was built with,
\* the product holds no LDPE and none of the catalyst component fed, and the
\* spent-catalyst outlet holds the catalyst inlet flow, LDPE fed / (WHSV x
\* catalyst_lifetime).
C17_CatalystRouting ==
    ReactorRan =>
        /\ hc_out.imass["LDPE"] = R(0)
        /\ hc_out.imass[R301.catalyst_ID] = R(0)
        /\ catalyst_out.imass[R301.catalyst_ID] = catalyst_in.imass[R301.catalyst_ID]
        /\ RMul(RMul(catalyst_out.imass[R301.catalyst_ID], R301.WHSV),
                R(R301.catalyst_lifetime)) = R(heavy_oil.imass["LDPE"])

-----------------------------------------------------------------------------
(* Conveyor, grinder and granulate conveyor: claims *)

\* a purity factor that is a fraction strictly between 0 and 1
ProperPurity(p) == ~IsNone(p) /\ 0 < p.num /\ p.num < p.den

\* a purity factor that is missing or outside [0, 1]
InvalidPurity(p) == IsNone(p) \/ p.num < 0 \/ p.num > p.den

C19_PurityRejected ==
    /\ (last = "Conveyor._run" /\ InvalidPurity(C101.purity_factor)) => err # "none"
    /\ \A c \in {"LDPE", "impurities"} :
          feedstock.imass[c] >= 0 /\ ss101.imass[c] >= 0

\* the density _design read is zero or missing
NoDensity(design) == IsNone(design.density) \/ design.density.num = 0

\* C20: when the inlet's density is zero or missing, _design of either
\* conveyor ends with the error 'Density is not defined' before the volumetric
\* flow is computed, and records no design result and no power utility.
C20_DensityGuard ==
    [][/\ (last' = "Conveyor._design" /\ NoDensity(C101'.design)) =>
              /\ err' = "ValueError: Density is not defined"
              /\ C101'.design.volumetric_flow = "unset"
              /\ C101'.design.design_results = C101.design.design_results
              /\ C101'.design.power_utility = C101.design.power_utility
       /\ (last' = "Conveyor_granulates._design" /\ NoDensity(C102'.design)) =>
              /\ err' = "ValueError: Density is not defined"
              /\ C102'.design.volumetric_flow = "unset"
              /\ C102'.design.design_results = C102.design.design_results
              /\ C102'.design.power_utility = C102.design.power_utility]_vars

-----------------------------------------------------------------------------
(* Hydrocracking reactor design: properties *)

DesignRan == last = "Hydrocracking_reactor._design"

\* the step of the reactor line that designs R301
DesignStep == pos = Len(reactor_line) + 1 /\ pos' = pos + 1

\* an inlet temperature that line 238 takes as given
Configured(T) == ~IsNone(T) /\ T.num # 0

\* C25: in Hydrocracking_reactor._design the owned compressor is simulated
\* exactly when the pressure of the hydrogen inlet is strictly below
\* hydrogen_P, and its outlet is then at hydrogen_P; otherwise it is not
\* simulated and its outlet has the flows, the temperature and the pressure of
\* the hydrogen inlet.
C25_CompressorBypass ==
    DesignRan =>
        /\ IC.simulated <=> s_out.P < R301.hydrogen_P
        /\ IC.simulated => IC_out.P = R301.hydrogen_P
        /\ ~IC.simulated =>
              /\ IC_out.imass = s_out.imass
              /\ IC_out.T = s_out.T
              /\ IC_out.P = s_out.P

\* a design that found the hydrogen exactly at hydrogen_P and passed it through
C25_Witness ==
    /\ DesignRan
    /\ err = "none"
    /\ s_out.imass["H2"] > 0
    /\ s_out.P = R301.hydrogen_P
    /\ ~IC.simulated
    /\ IC_out.imass["H2"] = s_out.imass["H2"]

\* C26: after Hydrocracking_reactor._design the outlets of both owned heat
\* exchangers are at HCin_T; a design leaves a configured HCin_T as it was,
\* and takes the temperature of the mixed inlet for HCin_T only when none is
\* configured.
C26_InletHeating ==
    [][DesignStep =>
          /\ hx_H2_out'.T = ToInt(R301'.HCin_T)
          /\ hx_oil_out'.T = ToInt(R301'.HCin_T)
          /\ IF Configured(R301.HCin_T)
             THEN R301'.HCin_T = R301.HCin_T
             ELSE R301'.HCin_T = R(mixed_in'.T)]_vars

\* a design with the temperature of HX301 configured that heated hydrogen
\* delivered colder
C26_Witness ==
    /\ DesignRan
    /\ err = "none"
    /\ IsNone(inferred)
    /\ R301.HCin_T = R(57315)
    /\ hx_H2_in.imass["H2"] > 0
    /\ hx_oil_in.imass["LDPE"] > 0
    /\ hx_H2_in.T < 57315
    /\ hx_H2_out.T = 57315

\* C30: a design that finds HCin_T unset (None or 0) stores the temperature
\* of the mixed inlet in HCin_T, and every later design of the reactor keeps
\* that value and sets both heat exchanger outlets to it, whatever the
\* temperatures of the inlets have become.
C30_InferredRetained ==
    [][DesignStep =>
          /\ ~Configured(R301.HCin_T) => R301'.HCin_T = R(mixed_in'.T)
          /\ ~IsNone(inferred) =>
                /\ R301'.HCin_T = inferred
                /\ hx_H2_out'.T = ToInt(inferred)
                /\ hx_oil_out'.T = ToInt(inferred)]_vars

\* a later design whose mixed inlet is at another temperature than the one
\* stored
C30_Witness ==
    /\ DesignRan
    /\ err = "none"
    /\ ~IsNone(inferred)
    /\ mixed_in.T # ToInt(inferred)
    /\ R301.HCin_T = inferred
    /\ hx_H2_out.T = ToInt(inferred)
    /\ hx_H2_in.T # ToInt(inferred)

-----------------------------------------------------------------------------
(* system_TEA: properties *)

\* C23: system_TEA called with a hydrogen_handling that is neither 'purchase
\* and storage' nor 'on-site production' raises before any pass: no unit has
\* run, no design or cost step has executed, and it never returns.
C23_ModeValidated ==
    hydrogen_handling \notin {"purchase and storage", "on-site production"} =>
        /\ phase \in {"called", "raised"}
        /\ phase = "raised" => err = "RuntimeError: hydrogen_handling"
        /\ \A u \in Units : runs[u] = 0
        /\ summary = <<>>
        /\ last \in {"init", "system_TEA"}

\* called with 'storage', system_TEA has raised
C23_Witness ==
    /\ hydrogen_handling = "storage"
    /\ phase = "raised"
    /\ err = "RuntimeError: hydrogen_handling"
    /\ last = "system_TEA"

\* the units of the flowsheet in the order of the paths: those of sys1, then
\* those of sys2
UnitOrder == sys1_path \o Tail(PathOf(hydrogen_handling))

\* a pass of sys1 is over
Sys1PassOver ==
    /\ phase = "converge"
    /\ err = "none"
    /\ pos = 1
    /\ pos1 = Len(sys1_path) + 1

\* a pass of sys2 is over
Sys2PassOver ==
    /\ phase = "converge"
    /\ err = "none"
    /\ pos = Len(PathOf(hydrogen_handling)) + 1

====
